---- MODULE Spec2Model ----
(***************************************************************************)
(* The evaluation core of r-python: eval (expressions to constants under   *)
(* an environment) and execute (statements threading an environment).      *)
(* Both are pure functions of their arguments; they are modelled as        *)
(* recursive operators that follow the match arms of the source, and the   *)
(* state machine below is a host that calls them.                          *)
(***************************************************************************)
EXTENDS Integers, Sequences, FiniteSets, TLC

(***************************************************************************)
(* i32                                                                     *)
(***************************************************************************)
I32Max == 2147483647
I32Min == -I32Max - 1

Abs(n) == IF n < 0 THEN -n ELSE n

\* a + b, a - b, a * b are representable in 32 bits (a, b are i32)
AddFits(a, b) == IF b >= 0 THEN a <= I32Max - b ELSE a >= I32Min - b
SubFits(a, b) == IF b >= 0 THEN a >= I32Min + b ELSE a <= I32Max + b
MulFits(a, b) ==
    IF a = 0 \/ b = 0 THEN TRUE
    ELSE IF a = I32Min THEN b = 1
    ELSE IF b = I32Min THEN a = 1
    ELSE \/ Abs(a) <= I32Max \div Abs(b)
         \/ /\ (a < 0) # (b < 0)
            /\ I32Min % Abs(b) = 0
            /\ I32Min \div Abs(b) = -Abs(a)

RECURSIVE GCD(_, _)
GCD(a, b) == IF b = 0 THEN a ELSE GCD(b, a % b)

(***************************************************************************)
(* f64.  A value is one of                                                 *)
(*   fin    the rational n/d in lowest terms, d >= 1 (n = 0 is +0.0);      *)
(*   nzero  -0.0;   pinf, ninf  the infinities;   nan  a NaN;              *)
(*   pbig, nbig  a finite integer above I32Max / below I32Min;             *)
(*   unrep  a finite value whose numerator or denominator needs more than  *)
(*          32 bits.                                                       *)
(* The operations are IEEE-754 on these classes.  Within the window of     *)
(* fin values used here every sum, difference and product, and every       *)
(* quotient of two i32, is computed exactly by f64 or rounds to a value    *)
(* with the same integer part, so fin results are exact rationals.  pbig,  *)
(* nbig and unrep are never operands: a result in one of these classes is  *)
(* either cast to i32 at once or ends the evaluation as Beyond.            *)
(***************************************************************************)
Fin(n, d) == [cls |-> "fin", n |-> n, d |-> d]
Special(c) == [cls |-> c, n |-> 0, d |-> 1]
NaN == Special("nan")
PInf == Special("pinf")
NInf == Special("ninf")
NZero == Special("nzero")
PBig == Special("pbig")
NBig == Special("nbig")
Unrep == Special("unrep")

IsNaN(x) == x.cls = "nan"
IsInf(x) == x.cls \in {"pinf", "ninf"}
IsZero(x) == x.cls = "nzero" \/ (x.cls = "fin" /\ x.n = 0)
OutOfWindow(x) == x.cls \in {"pbig", "nbig", "unrep"}
Sign(x) == IF x.cls \in {"nzero", "ninf", "nbig"} \/ (x.cls = "fin" /\ x.n < 0)
           THEN -1 ELSE 1
Inf(s) == IF s < 0 THEN NInf ELSE PInf
Zero(s) == IF s < 0 THEN NZero ELSE Fin(0, 1)
Big(s) == IF s < 0 THEN NBig ELSE PBig

\* n/d in lowest terms (d >= 1)
Norm(n, d) == LET g == GCD(d, n % d) IN Fin(n \div g, d \div g)

\* `v as f64` for an i32 v: exact
FromI32(v) == Fin(v, 1)

\* mutant: a finite value is rounded toward negative infinity
ToI32_floor(x) ==
    CASE x.cls = "nan" -> 0
      [] x.cls = "nzero" -> 0
      [] x.cls \in {"pinf", "pbig"} -> I32Max
      [] x.cls \in {"ninf", "nbig"} -> I32Min
      [] x.cls = "fin" -> x.n \div x.d

\* `x as i32` for an f64 x: truncation toward zero, saturating, NaN to 0
ToI32(x) ==
    CASE x.cls = "nan" -> 0
      [] x.cls = "nzero" -> 0
      [] x.cls \in {"pinf", "pbig"} -> I32Max
      [] x.cls \in {"ninf", "nbig"} -> I32Min
      [] x.cls = "fin" ->
            IF x.n >= 0 \/ x.n % x.d = 0 THEN x.n \div x.d
            ELSE (x.n \div x.d) + 1

\* sum and difference of two finite non-zero values
FinAdd(x, y) ==
    IF x.d = 1 /\ y.d = 1
    THEN IF AddFits(x.n, y.n) THEN Fin(x.n + y.n, 1) ELSE Big(y.n)
    ELSE IF /\ MulFits(x.n, y.d) /\ MulFits(y.n, x.d) /\ MulFits(x.d, y.d)
            /\ AddFits(x.n * y.d, y.n * x.d)
         THEN Norm(x.n * y.d + y.n * x.d, x.d * y.d)
         ELSE Unrep

FinSub(x, y) ==
    IF x.d = 1 /\ y.d = 1
    THEN IF SubFits(x.n, y.n) THEN Fin(x.n - y.n, 1) ELSE Big(-Sign(y))
    ELSE IF /\ MulFits(x.n, y.d) /\ MulFits(y.n, x.d) /\ MulFits(x.d, y.d)
            /\ SubFits(x.n * y.d, y.n * x.d)
         THEN Norm(x.n * y.d - y.n * x.d, x.d * y.d)
         ELSE Unrep

\* |a, b| a + b
FAdd(x, y) ==
    IF IsNaN(x) \/ IsNaN(y) THEN NaN
    ELSE IF OutOfWindow(x) \/ OutOfWindow(y) THEN Unrep
    ELSE IF IsInf(x) THEN (IF IsInf(y) /\ y # x THEN NaN ELSE x)
    ELSE IF IsInf(y) THEN y
    ELSE IF IsZero(x) /\ IsZero(y)
         THEN (IF x.cls = "nzero" /\ y.cls = "nzero" THEN NZero ELSE Fin(0, 1))
    ELSE IF IsZero(x) THEN y
    ELSE IF IsZero(y) THEN x
    ELSE FinAdd(x, y)

\* |a, b| a - b
FSub(x, y) ==
    IF IsNaN(x) \/ IsNaN(y) THEN NaN
    ELSE IF OutOfWindow(x) \/ OutOfWindow(y) THEN Unrep
    ELSE IF IsInf(x) THEN (IF y = x THEN NaN ELSE x)
    ELSE IF IsInf(y) THEN Inf(-Sign(y))
    ELSE IF IsZero(x) /\ IsZero(y)
         THEN (IF x.cls = "nzero" /\ y.cls = "fin" THEN NZero ELSE Fin(0, 1))
    ELSE IF IsZero(y) THEN x
    ELSE IF IsZero(x)
         THEN (IF y.n = I32Min THEN (IF y.d = 1 THEN PBig ELSE Unrep)
               ELSE Fin(-y.n, y.d))
    ELSE FinSub(x, y)

\* |a, b| a * b
FMul(x, y) ==
    IF IsNaN(x) \/ IsNaN(y) THEN NaN
    ELSE IF OutOfWindow(x) \/ OutOfWindow(y) THEN Unrep
    ELSE LET s == Sign(x) * Sign(y) IN
         IF IsInf(x) \/ IsInf(y)
         THEN (IF IsZero(x) \/ IsZero(y) THEN NaN ELSE Inf(s))
         ELSE IF IsZero(x) \/ IsZero(y) THEN Zero(s)
         ELSE IF x.d = 1 /\ y.d = 1
              THEN (IF MulFits(x.n, y.n) THEN Fin(x.n * y.n, 1) ELSE Big(s))
         ELSE IF MulFits(x.n, y.n) /\ MulFits(x.d, y.d)
              THEN Norm(x.n * y.n, x.d * y.d)
         ELSE Unrep

\* |a, b| a / b
FDiv(x, y) ==
    IF IsNaN(x) \/ IsNaN(y) THEN NaN
    ELSE IF OutOfWindow(x) \/ OutOfWindow(y) THEN Unrep
    ELSE LET s == Sign(x) * Sign(y) IN
         IF IsInf(x) THEN (IF IsInf(y) THEN NaN ELSE Inf(s))
         ELSE IF IsInf(y) THEN Zero(s)
         ELSE IF IsZero(y) THEN (IF IsZero(x) THEN NaN ELSE Inf(s))
         ELSE IF IsZero(x) THEN Zero(s)
         ELSE IF ~ (MulFits(x.n, y.d) /\ MulFits(x.d, y.n)) THEN Unrep
         ELSE LET num == x.n * y.d
                  den == x.d * y.n
              IN  IF den > 0 THEN Norm(num, den)
                  ELSE IF num # I32Min /\ den # I32Min THEN Norm(-num, -den)
                  ELSE IF num % 2 = 0 /\ den % 2 = 0
                       THEN Norm(-(num \div 2), -(den \div 2))
                  ELSE IF den = -1 THEN PBig
                  ELSE Unrep

\* the order of two f64: "lt", "eq", "gt", "un" (unordered: a NaN operand),
\* or "beyond" when the operands are outside the window
FCmp(x, y) ==
    IF IsNaN(x) \/ IsNaN(y) THEN "un"
    ELSE IF OutOfWindow(x) \/ OutOfWindow(y) THEN "beyond"
    ELSE IF IsInf(x) \/ IsInf(y)
         THEN (IF x = y THEN "eq"
               ELSE IF x = NInf \/ y = PInf THEN "lt" ELSE "gt")
    ELSE IF x.d = y.d
         THEN (IF x.n < y.n THEN "lt" ELSE IF x.n = y.n THEN "eq" ELSE "gt")
    ELSE IF MulFits(x.n, y.d) /\ MulFits(y.n, x.d)
         THEN (IF x.n * y.d < y.n * x.d THEN "lt"
               ELSE IF x.n * y.d = y.n * x.d THEN "eq" ELSE "gt")
    ELSE "beyond"

(***************************************************************************)
(* Expression, Statement (ir/ast.rs)                                       *)
(***************************************************************************)
CTrue == [kind |-> "CTrue"]
CFalse == [kind |-> "CFalse"]
CInt(v) == [kind |-> "CInt", i |-> v]
CReal(v) == [kind |-> "CReal", r |-> v]
CString(v) == [kind |-> "CString", s |-> v]
Var(name) == [kind |-> "Var", name |-> name]
Binary(k, lhs, rhs) == [kind |-> k, lhs |-> lhs, rhs |-> rhs]
Add(lhs, rhs) == Binary("Add", lhs, rhs)
Sub(lhs, rhs) == Binary("Sub", lhs, rhs)
Mul(lhs, rhs) == Binary("Mul", lhs, rhs)
Div(lhs, rhs) == Binary("Div", lhs, rhs)
And(lhs, rhs) == Binary("And", lhs, rhs)
Or(lhs, rhs) == Binary("Or", lhs, rhs)
Not(lhs) == [kind |-> "Not", lhs |-> lhs]
EQ(lhs, rhs) == Binary("EQ", lhs, rhs)
GT(lhs, rhs) == Binary("GT", lhs, rhs)
LT(lhs, rhs) == Binary("LT", lhs, rhs)
GTE(lhs, rhs) == Binary("GTE", lhs, rhs)
LTE(lhs, rhs) == Binary("LTE", lhs, rhs)

VarDeclaration(name) == [kind |-> "VarDeclaration", name |-> name]
ValDeclaration(name) == [kind |-> "ValDeclaration", name |-> name]
Assignment(name, exp) == [kind |-> "Assignment", name |-> name, exp |-> exp]
IfThenElse(cond, stmt_then, stmt_else) ==
    [kind |-> "IfThenElse", cond |-> cond, stmt_then |-> stmt_then,
     stmt_else |-> stmt_else]
While(cond, stmt) == [kind |-> "While", cond |-> cond, stmt |-> stmt]
Sequence(s1, s2) == [kind |-> "Sequence", s1 |-> s1, s2 |-> s2]

\* #[derive(PartialEq)] on two constants: f64 fields compare by IEEE ==,
\* under which a NaN differs from itself and -0.0 equals +0.0
ConstPartialEq(a, b) ==
    /\ a.kind = b.kind
    /\ a.kind = "CInt" => a.i = b.i
    /\ a.kind = "CReal" => FCmp(a.r, b.r) = "eq"
    /\ a.kind = "CString" => a.s = b.s

(***************************************************************************)
(* Result<Expression, ErrorMessage> and Result<Environment, ErrorMessage>. *)
(* Beyond is not a result of the program: it marks an evaluation that the  *)
(* model does not follow (an f64 outside the window above, or a loop that  *)
(* has not ended after MaxIter iterations).  It is passed up like an Err   *)
(* and the host's actions are not enabled for such a call.                 *)
(***************************************************************************)
\* Only({ f(r) : r \in {e} }) is f(e) with e evaluated once and named r
Only(S) == CHOOSE x \in S : TRUE

Ok(v) == [tag |-> "Ok", val |-> v]
Err(m) == [tag |-> "Err", msg |-> m]
Beyond == [tag |-> "Beyond"]

\* Environment = HashMap<Name, Expression>: a function on the set of its keys
EmptyEnv == [n \in {} |-> CTrue]
Insert(env, name, value) ==
    [n \in DOMAIN env \cup {name} |-> IF n = name THEN value ELSE env[n]]

(***************************************************************************)
(* interpreter.rs: eval                                                    *)
(***************************************************************************)
RECURSIVE eval(_, _)

is_constant(exp) == exp.kind \in {"CTrue", "CFalse", "CInt", "CReal", "CString"}

\* mutant: the message does not name the variable
lookup_unnamed(name, env) ==
    IF name \in DOMAIN env THEN Ok(env[name])
    ELSE Err("Variable not found")

lookup(name, env) ==
    IF name \in DOMAIN env THEN Ok(env[name])
    ELSE Err("Variable " \o name \o " not found")

\* the closure passed as `op` by add, sub, mul, div
ArithOp(op, a, b) ==
    CASE op = "add" -> FAdd(a, b)
      [] op = "sub" -> FSub(a, b)
      [] op = "mul" -> FMul(a, b)
      [] op = "div" -> FDiv(a, b)

\* mutant: a result outside the range of i32 is an error
IntResult_checked(r) ==
    IF r.cls = "unrep" THEN Beyond
    ELSE IF r.cls # "fin" /\ r.cls # "nzero" THEN Err("integer overflow")
    ELSE Ok(CInt(ToI32(r)))

\* Ok(CInt(op(..) as i32)) and Ok(CReal(op(..)))
IntResult(r) == IF r.cls = "unrep" THEN Beyond ELSE Ok(CInt(ToI32(r)))
RealResult(r) == IF OutOfWindow(r) THEN Beyond ELSE Ok(CReal(r))

\* mutant: the (CReal, CInt) arm casts its result to i32
ArithMatch_cast(v1, v2, op, error_msg) ==
    CASE v1.kind = "CInt" /\ v2.kind = "CInt" ->
            IntResult(ArithOp(op, FromI32(v1.i), FromI32(v2.i)))
      [] v1.kind = "CInt" /\ v2.kind = "CReal" ->
            RealResult(ArithOp(op, FromI32(v1.i), v2.r))
      [] v1.kind = "CReal" /\ v2.kind = "CInt" ->
            IntResult(ArithOp(op, v1.r, FromI32(v2.i)))
      [] v1.kind = "CReal" /\ v2.kind = "CReal" ->
            RealResult(ArithOp(op, v1.r, v2.r))
      [] OTHER -> Err(error_msg)

\* match (v1, v2) { .. } of eval_binary_arith_op
ArithMatch(v1, v2, op, error_msg) ==
    CASE v1.kind = "CInt" /\ v2.kind = "CInt" ->
            IntResult(ArithOp(op, FromI32(v1.i), FromI32(v2.i)))
      [] v1.kind = "CInt" /\ v2.kind = "CReal" ->
            RealResult(ArithOp(op, FromI32(v1.i), v2.r))
      [] v1.kind = "CReal" /\ v2.kind = "CInt" ->
            RealResult(ArithOp(op, v1.r, FromI32(v2.i)))
      [] v1.kind = "CReal" /\ v2.kind = "CReal" ->
            RealResult(ArithOp(op, v1.r, v2.r))
      [] OTHER -> Err(error_msg)

\* mutant: the kind of the left operand is checked before the right operand
\* is evaluated
eval_binary_arith_op_check_first(lhs, rhs, env, op, error_msg) ==
    Only({ IF r1.tag # "Ok" THEN r1
           ELSE IF r1.val.kind \notin {"CInt", "CReal"} THEN Err(error_msg)
           ELSE Only({ IF r2.tag # "Ok" THEN r2
                       ELSE ArithMatch(r1.val, r2.val, op, error_msg)
                       : r2 \in {eval(rhs, env)} })
           : r1 \in {eval(lhs, env)} })

eval_binary_arith_op(lhs, rhs, env, op, error_msg) ==
    Only({ IF r1.tag # "Ok" THEN r1
           ELSE Only({ IF r2.tag # "Ok" THEN r2
                       ELSE ArithMatch(r1.val, r2.val, op, error_msg)
                       : r2 \in {eval(rhs, env)} })
           : r1 \in {eval(lhs, env)} })

add(lhs, rhs, env) ==
    eval_binary_arith_op(lhs, rhs, env, "add",
        "addition '(+)' is only defined for numbers (integers and real).")
sub(lhs, rhs, env) ==
    eval_binary_arith_op(lhs, rhs, env, "sub",
        "subtraction '(-)' is only defined for numbers (integers and real).")
mul(lhs, rhs, env) ==
    eval_binary_arith_op(lhs, rhs, env, "mul",
        "multiplication '(*)' is only defined for numbers (integers and real).")
div(lhs, rhs, env) ==
    eval_binary_arith_op(lhs, rhs, env, "div",
        "division '(/)' is only defined for numbers (integers and real).")

\* the closure passed as `op` by and, or
BoolOp(op, a, b) ==
    CASE op = "and" -> IF a /\ b THEN CTrue ELSE CFalse
      [] op = "or" -> IF a \/ b THEN CTrue ELSE CFalse

\* match (v1, v2) { .. } of eval_binary_boolean_op
BoolMatch(v1, v2, op, error_msg) ==
    CASE v1.kind = "CTrue" /\ v2.kind = "CTrue" -> Ok(BoolOp(op, TRUE, TRUE))
      [] v1.kind = "CTrue" /\ v2.kind = "CFalse" -> Ok(BoolOp(op, TRUE, FALSE))
      [] v1.kind = "CFalse" /\ v2.kind = "CTrue" -> Ok(BoolOp(op, FALSE, TRUE))
      [] v1.kind = "CFalse" /\ v2.kind = "CFalse" -> Ok(BoolOp(op, FALSE, FALSE))
      [] OTHER -> Err(error_msg)

\* mutant: `and` with a false left operand, `or` with a true one, does not
\* evaluate the right operand
eval_binary_boolean_op_short(lhs, rhs, env, op, error_msg) ==
    Only({ IF r1.tag # "Ok" THEN r1
           ELSE IF op = "and" /\ r1.val.kind = "CFalse" THEN Ok(CFalse)
           ELSE IF op = "or" /\ r1.val.kind = "CTrue" THEN Ok(CTrue)
           ELSE Only({ IF r2.tag # "Ok" THEN r2
                       ELSE BoolMatch(r1.val, r2.val, op, error_msg)
                       : r2 \in {eval(rhs, env)} })
           : r1 \in {eval(lhs, env)} })

eval_binary_boolean_op(lhs, rhs, env, op, error_msg) ==
    Only({ IF r1.tag # "Ok" THEN r1
           ELSE Only({ IF r2.tag # "Ok" THEN r2
                       ELSE BoolMatch(r1.val, r2.val, op, error_msg)
                       : r2 \in {eval(rhs, env)} })
           : r1 \in {eval(lhs, env)} })

and(lhs, rhs, env) ==
    eval_binary_boolean_op(lhs, rhs, env, "and", "'and' is only defined for booleans.")
or(lhs, rhs, env) ==
    eval_binary_boolean_op(lhs, rhs, env, "or", "'or' is only defined for booleans.")

not(lhs, env) ==
    Only({ IF r.tag # "Ok" THEN r
           ELSE CASE r.val.kind = "CTrue" -> Ok(CFalse)
                  [] r.val.kind = "CFalse" -> Ok(CTrue)
                  [] OTHER -> Err("'not' is only defined for booleans.")
           : r \in {eval(lhs, env)} })

\* the closure passed as `op` by eq, gt, lt, gte, lte
RelOp(op, a, b) ==
    Only({ IF c = "beyond" THEN Beyond
           ELSE IF \/ op = "eq" /\ c = "eq"
                   \/ op = "gt" /\ c = "gt"
                   \/ op = "lt" /\ c = "lt"
                   \/ op = "gte" /\ c \in {"gt", "eq"}
                   \/ op = "lte" /\ c \in {"lt", "eq"}
                THEN Ok(CTrue) ELSE Ok(CFalse)
           : c \in {FCmp(a, b)} })

\* match (v1, v2) { .. } of eval_binary_rel_op
RelMatch(v1, v2, op, error_msg) ==
    CASE v1.kind = "CInt" /\ v2.kind = "CInt" ->
            RelOp(op, FromI32(v1.i), FromI32(v2.i))
      [] v1.kind = "CInt" /\ v2.kind = "CReal" -> RelOp(op, FromI32(v1.i), v2.r)
      [] v1.kind = "CReal" /\ v2.kind = "CInt" -> RelOp(op, v1.r, FromI32(v2.i))
      [] v1.kind = "CReal" /\ v2.kind = "CReal" -> RelOp(op, v1.r, v2.r)
      [] OTHER -> Err(error_msg)

eval_binary_rel_op(lhs, rhs, env, op, error_msg) ==
    Only({ IF r1.tag # "Ok" THEN r1
           ELSE Only({ IF r2.tag # "Ok" THEN r2
                       ELSE RelMatch(r1.val, r2.val, op, error_msg)
                       : r2 \in {eval(rhs, env)} })
           : r1 \in {eval(lhs, env)} })

eq(lhs, rhs, env) ==
    eval_binary_rel_op(lhs, rhs, env, "eq",
        "(==) is only defined for numbers (integers and real).")
\* mutant: >= for >
gt_or_equal(lhs, rhs, env) ==
    eval_binary_rel_op(lhs, rhs, env, "gte",
        "(>) is only defined for numbers (integers and real).")
gt(lhs, rhs, env) ==
    eval_binary_rel_op(lhs, rhs, env, "gt",
        "(>) is only defined for numbers (integers and real).")
lt(lhs, rhs, env) ==
    eval_binary_rel_op(lhs, rhs, env, "lt",
        "(<) is only defined for numbers (integers and real).")
gte(lhs, rhs, env) ==
    eval_binary_rel_op(lhs, rhs, env, "gte",
        "(>=) is only defined for numbers (integers and real).")
lte(lhs, rhs, env) ==
    eval_binary_rel_op(lhs, rhs, env, "lte",
        "(<=) is only defined for numbers (integers and real).")

\* mutant: a reference to an unbound variable evaluates to itself
eval_symbolic(exp, env) ==
    CASE exp.kind = "Add" -> add(exp.lhs, exp.rhs, env)
      [] exp.kind = "Sub" -> sub(exp.lhs, exp.rhs, env)
      [] exp.kind = "Mul" -> mul(exp.lhs, exp.rhs, env)
      [] exp.kind = "Div" -> div(exp.lhs, exp.rhs, env)
      [] exp.kind = "And" -> and(exp.lhs, exp.rhs, env)
      [] exp.kind = "Or" -> or(exp.lhs, exp.rhs, env)
      [] exp.kind = "Not" -> not(exp.lhs, env)
      [] exp.kind = "EQ" -> eq(exp.lhs, exp.rhs, env)
      [] exp.kind = "GT" -> gt(exp.lhs, exp.rhs, env)
      [] exp.kind = "LT" -> lt(exp.lhs, exp.rhs, env)
      [] exp.kind = "GTE" -> gte(exp.lhs, exp.rhs, env)
      [] exp.kind = "LTE" -> lte(exp.lhs, exp.rhs, env)
      [] exp.kind = "Var" ->
            IF exp.name \in DOMAIN env THEN lookup(exp.name, env) ELSE Ok(exp)
      [] is_constant(exp) -> Ok(exp)
      [] OTHER -> Err("Not implemented yet.")

eval(exp, env) ==
    CASE exp.kind = "Add" -> add(exp.lhs, exp.rhs, env)
      [] exp.kind = "Sub" -> sub(exp.lhs, exp.rhs, env)
      [] exp.kind = "Mul" -> mul(exp.lhs, exp.rhs, env)
      [] exp.kind = "Div" -> div(exp.lhs, exp.rhs, env)
      [] exp.kind = "And" -> and(exp.lhs, exp.rhs, env)
      [] exp.kind = "Or" -> or(exp.lhs, exp.rhs, env)
      [] exp.kind = "Not" -> not(exp.lhs, env)
      [] exp.kind = "EQ" -> eq(exp.lhs, exp.rhs, env)
      [] exp.kind = "GT" -> gt(exp.lhs, exp.rhs, env)
      [] exp.kind = "LT" -> lt(exp.lhs, exp.rhs, env)
      [] exp.kind = "GTE" -> gte(exp.lhs, exp.rhs, env)
      [] exp.kind = "LTE" -> lte(exp.lhs, exp.rhs, env)
      [] exp.kind = "Var" -> lookup(exp.name, env)
      [] is_constant(exp) -> Ok(exp)
      [] OTHER -> Err("Not implemented yet.")

(***************************************************************************)
(* interpreter.rs: execute                                                 *)
(***************************************************************************)
\* the most iterations of one while loop that the model follows
MaxIter == 10

RECURSIVE execute(_, _)
RECURSIVE while_loop(_, _, _, _, _)

\* mutant: entry(name).or_insert(value), which keeps an existing binding
execute_assignment_or_insert(name, exp, env) ==
    Only({ IF value.tag # "Ok" THEN value
           ELSE Ok(IF name \in DOMAIN env THEN env ELSE Insert(env, name, value.val))
           : value \in {eval(exp, env)} })

execute_assignment(name, exp, env) ==
    Only({ IF value.tag # "Ok" THEN value
           ELSE Ok(Insert(env, name, value.val))
           : value \in {eval(exp, env)} })

\* mutant: the branches swapped
execute_if_then_else_swapped(cond, stmt_then, stmt_else, env) ==
    Only({ IF value.tag # "Ok" THEN value
           ELSE CASE value.val.kind = "CTrue" -> execute(stmt_else, env)
                  [] value.val.kind = "CFalse" -> execute(stmt_then, env)
                  [] OTHER -> Err("expecting a boolean value.")
           : value \in {eval(cond, env)} })

execute_if_then_else(cond, stmt_then, stmt_else, env) ==
    Only({ IF value.tag # "Ok" THEN value
           ELSE CASE value.val.kind = "CTrue" -> execute(stmt_then, env)
                  [] value.val.kind = "CFalse" -> execute(stmt_else, env)
                  [] OTHER -> Err("expecting a boolean value.")
           : value \in {eval(cond, env)} })

\* mutant: `if` for `while`, the body runs at most once
while_loop_once(cond, stmt, value, new_env, n) ==
    IF ~ ConstPartialEq(value, CTrue) THEN Ok(new_env)
    ELSE Only({ IF r.tag # "Ok" THEN r
                ELSE Only({ IF v.tag # "Ok" THEN v ELSE Ok(r.val)
                            : v \in {eval(cond, r.val)} })
                : r \in {execute(stmt, new_env)} })

\* `while value == Expression::CTrue { .. } Ok(new_env)`, n iterations done
while_loop(cond, stmt, value, new_env, n) ==
    IF ~ ConstPartialEq(value, CTrue) THEN Ok(new_env)
    ELSE IF n >= MaxIter THEN Beyond
    ELSE Only({ IF r.tag # "Ok" THEN r
                ELSE Only({ IF v.tag # "Ok" THEN v
                            ELSE while_loop(cond, stmt, v.val, r.val, n + 1)
                            : v \in {eval(cond, r.val)} })
                : r \in {execute(stmt, new_env)} })

execute_while(cond, stmt, env) ==
    Only({ IF value.tag # "Ok" THEN value
           ELSE while_loop(cond, stmt, value.val, env, 0)
           : value \in {eval(cond, env)} })

\* mutant: s2 runs even when s1 has failed
execute_sequence_always(s1, s2, env) ==
    Only({ IF r.tag # "Ok" THEN execute(s2, env) ELSE execute(s2, r.val)
           : r \in {execute(s1, env)} })

execute_sequence(s1, s2, env) ==
    Only({ IF r.tag # "Ok" THEN r ELSE execute(s2, r.val)
           : r \in {execute(s1, env)} })

execute(stmt, env) ==
    CASE stmt.kind = "Assignment" -> execute_assignment(stmt.name, stmt.exp, env)
      [] stmt.kind = "IfThenElse" ->
            execute_if_then_else(stmt.cond, stmt.stmt_then, stmt.stmt_else, env)
      [] stmt.kind = "While" -> execute_while(stmt.cond, stmt.stmt, env)
      [] stmt.kind = "Sequence" -> execute_sequence(stmt.s1, stmt.s2, env)
      [] OTHER -> Err("not implemented yet")

(***************************************************************************)
(* The host.  It owns an environment and calls execute (moving the         *)
(* environment in and receiving the successor environment, or an error)    *)
(* and eval (lending the environment).  last records the most recent call: *)
(* its arguments and what it returned.                                     *)
(***************************************************************************)
VARIABLES env, status, calls, last
vars == <<env, status, calls, last>>

\* the most execute calls the host chains, each fed the previous result
MaxCalls == 1

\* ---- the statements the host executes ----
Forever == While(CTrue, Assignment("x", Var("x")))

\* x = n; y = 0; while x > 0 { y = y + x; x = x - 1 }   (tests::eval_summation)
Summation(n) ==
    Sequence(Assignment("x", CInt(n)),
      Sequence(Assignment("y", CInt(0)),
        While(GT(Var("x"), CInt(0)),
              Sequence(Assignment("y", Add(Var("y"), Var("x"))),
                       Assignment("x", Sub(Var("x"), CInt(1)))))))

\* x = v; if x > 5 then y = 1 else y = 0   (tests::eval_simple_if_then_else)
IfExample(v) ==
    Sequence(Assignment("x", CInt(v)),
             IfThenElse(GT(Var("x"), CInt(5)),
                        Assignment("y", CInt(1)), Assignment("y", CInt(0))))

RhsExprs ==
    { CInt(0), CInt(1), CInt(42), CTrue, CFalse, CReal(Fin(3, 2)), CString("s"),
      Var("x"), Var("y"), Var("z"),
      Add(Var("y"), Var("x")), Sub(Var("x"), CInt(1)), Add(Var("x"), CInt(1)),
      Add(CTrue, Var("z")), And(Var("x"), CTrue), Not(Var("y")) }
Assignments == { Assignment(n, e) : n \in {"x", "y"}, e \in RhsExprs }

IfConds ==
    { CTrue, CFalse, CInt(1), Var("x"), Var("z"), GT(Var("x"), CInt(5)) }
Branches ==
    { Assignment("y", CInt(1)), Assignment("x", Sub(Var("x"), CInt(1))),
      Assignment("y", Var("z")), VarDeclaration("y") }
Ifs == { IfThenElse(c, t, e) : c \in IfConds, t \in Branches, e \in Branches }

WhileConds ==
    { CTrue, CFalse, CInt(1), CReal(Fin(3, 2)), CString("s"), Var("x"), Var("z"),
      GT(Var("x"), CInt(0)), LT(Var("x"), CInt(3)), Not(Var("x")) }

Bodies ==
    { Assignment("x", Sub(Var("x"), CInt(1))), Assignment("x", Add(Var("x"), CInt(1))),
      Assignment("x", CFalse), Assignment("x", CInt(7)), Assignment("x", Not(Var("x"))),
      Assignment("y", Var("z")),
      Sequence(Assignment("y", Add(Var("y"), Var("x"))),
               Assignment("x", Sub(Var("x"), CInt(1)))),
      While(LT(Var("y"), CInt(2)),
            Sequence(Assignment("y", Add(Var("y"), CInt(1))),
                     Assignment("x", Sub(Var("x"), CInt(1))))) }
Whiles == { While(c, b) : c \in WhileConds, b \in Bodies }

SeqParts ==
    { Assignment("y", Var("x")), Assignment("x", Add(Var("x"), CInt(1))),
      Assignment("y", Var("z")), VarDeclaration("x"),
      IfThenElse(CInt(1), Assignment("x", CInt(0)), Assignment("x", CInt(0))),
      While(GT(Var("x"), CInt(0)), Assignment("x", Sub(Var("x"), CInt(1)))),
      Forever }
Sequences == { Sequence(a, b) : a \in SeqParts, b \in SeqParts }

Programs ==
    Assignments \cup Ifs \cup Whiles \cup Sequences
    \cup { VarDeclaration("x"), ValDeclaration("y") }
    \cup { Summation(n) : n \in 0..MaxIter }
    \cup { IfExample(10), IfExample(3) }

\* ---- the expressions the host evaluates ----
Ints == { I32Min, -7, -2, -1, 0, 1, 2, 3, 7, 10, 21, I32Max }
Reals == { Fin(41, 2), Fin(-3, 2), Fin(3, 1), NZero, PInf, NInf, NaN }
Numbers == { CInt(i) : i \in Ints } \cup { CReal(r) : r \in Reals }
Consts == Numbers \cup { CTrue, CFalse, CString("s") }
Atoms == Consts \cup { Var("x"), Var("y"), Var("z") }
SmallAtoms ==
    { CTrue, CFalse, CInt(-7), CInt(1), CInt(10), CReal(Fin(3, 1)), CReal(NaN),
      CString("s"), Var("x"), Var("y"), Var("z") }
Inner ==
    { Add(Var("x"), CInt(1)), Mul(Var("a"), Add(Var("b"), CInt(2))),
      GT(Var("x"), CInt(0)), And(CTrue, Var("z")), Or(Var("y"), CInt(1)),
      Not(CFalse), Not(Var("x")), Div(CInt(1), CInt(0)), Sub(Var("z"), Var("w")) }
ArithKinds == { "Add", "Sub", "Mul", "Div" }
BoolKinds == { "And", "Or" }
RelKinds == { "EQ", "GT", "LT", "GTE", "LTE" }
Expressions ==
    Atoms \cup Inner
    \cup { Binary(k, a, b) : k \in ArithKinds, a \in Atoms, b \in Atoms }
    \cup { Binary(k, a, b) : k \in BoolKinds \cup RelKinds,
                             a \in SmallAtoms, b \in SmallAtoms }
    \cup { Binary(k, a, b) : k \in {"Add", "And", "Or", "GT"},
                             a \in SmallAtoms \cup Inner, b \in Inner }
    \cup { Binary(k, a, b) : k \in {"Add", "And", "Or", "GT"},
                             a \in Inner, b \in SmallAtoms }
    \cup { Not(a) : a \in SmallAtoms \cup Inner }

\* ---- the environments the host starts from ----
Env1(n, v) == Insert(EmptyEnv, n, v)
Env2(n, v, m, w) == Insert(Env1(n, v), m, w)
InitEnvs ==
    { EmptyEnv,
      Env1("x", CInt(10)),
      Env2("x", CInt(3), "y", CInt(0)),
      Env2("x", CTrue, "y", CFalse),
      Env2("x", CReal(Fin(3, 2)), "z", CString("s")),
      Env2("x", CInt(I32Max), "y", CInt(-7)),
      Env2("x", CInt(-2), "y", CInt(1)),
      Env2("a", CInt(5), "b", CInt(3)) }

Init ==
    /\ env \in InitEnvs
    /\ status = "ready"
    /\ calls = 0
    /\ last = [op |-> "none"]

\* execute(stmt, env): on Ok the host goes on with the returned environment;
\* on Err the environment that was moved into the call is lost
Execute(stmt) ==
    /\ status = "ready"
    /\ calls < MaxCalls
    /\ \E out \in {execute(stmt, env)} :
          /\ out.tag # "Beyond"
          /\ last' = [op |-> "execute", stmt |-> stmt, env |-> env, out |-> out]
          /\ IF out.tag = "Ok"
             THEN env' = out.val /\ status' = "ready"
             ELSE env' = EmptyEnv /\ status' = "failed"
    /\ calls' = calls + 1

\* eval(exp, &env)
Eval(exp) ==
    /\ status = "ready"
    /\ \E out \in {eval(exp, env)} :
          /\ out.tag # "Beyond"
          /\ last' = [op |-> "eval", exp |-> exp, env |-> env, out |-> out]
    /\ UNCHANGED <<env, status, calls>>

Next == \E stmt \in Programs : Execute(stmt)
Spec == Init /\ [][Next]_vars

\* eval leaves the environment as it is, so a second eval in a row reaches
\* nothing that the first does not
NextEval == last.op # "eval" /\ \E exp \in Expressions : Eval(exp)
SpecEval == Init /\ [][NextEval]_vars

(***************************************************************************)
(* Properties of execute, checked under Spec                               *)
(***************************************************************************)
Executed(k) == last.op = "execute" /\ last.stmt.kind = k

RECURSIVE CondTurnsNonBoolean(_, _, _, _)
\* cond evaluates to an integer, real or string constant in e, or does so
\* when it is evaluated again after some iterations of body from e
CondTurnsNonBoolean(cond, body, e, n) ==
    \E v \in {eval(cond, e)} :
       /\ v.tag = "Ok"
       /\ \/ v.val.kind \in {"CInt", "CReal", "CString"}
          \/ /\ v.val.kind = "CTrue"
             /\ n < MaxIter
             /\ \E r \in {execute(body, e)} :
                   r.tag = "Ok" /\ CondTurnsNonBoolean(cond, body, r.val, n + 1)

\* C1: execute(While(cond, body), env) fails whenever cond evaluates to a
\* non-boolean constant, on the first evaluation or on a later one; it never
\* returns Ok in that case.
C1_WhileNonBooleanCondFails ==
    (Executed("While")
       /\ CondTurnsNonBoolean(last.stmt.cond, last.stmt.stmt, last.env, 0))
    => last.out.tag = "Err"

\* C2: when eval(e, env) succeeds with v, execute(Assignment(n, e), env)
\* returns an environment whose keys are those of env and n, that maps n to v
\* (e evaluated in env as it was) and every other name as env does.
C2_AssignmentFrame ==
    Executed("Assignment") =>
        \A v \in {eval(last.stmt.exp, last.env)} :
            v.tag = "Ok" =>
               /\ last.out.tag = "Ok"
               /\ DOMAIN last.out.val = DOMAIN last.env \cup {last.stmt.name}
               /\ last.out.val[last.stmt.name] = v.val
               /\ \A m \in DOMAIN last.env \ {last.stmt.name} :
                     last.out.val[m] = last.env[m]

\* an assignment that overwrote a binding while another name was bound
C2_Witness ==
    /\ Executed("Assignment")
    /\ last.out.tag = "Ok"
    /\ last.stmt.name \in DOMAIN last.env
    /\ last.out.val[last.stmt.name] # last.env[last.stmt.name]
    /\ DOMAIN last.env # {last.stmt.name}

RECURSIVE BodyRuns(_, _, _)
\* <<r_0, .., r_k>>: r_0 = Ok(e) and r_i+1 is the result of executing body in
\* the environment of r_i (a failure is repeated)
BodyRuns(body, e, k) ==
    IF k = 0 THEN <<Ok(e)>>
    ELSE Only({ Append(t, IF t[k].tag = "Ok" THEN execute(body, t[k].val) ELSE t[k])
                : t \in {BodyRuns(body, e, k - 1)} })

\* in the runs t of the body, cond is CTrue in env_0 .. env_k-1 and CFalse in
\* env_k, and none of the k executions of the body fails
EndsAfter(cond, t, k) ==
    /\ \A i \in 1..(k + 1) : t[i].tag = "Ok"
    /\ \A i \in 1..k : eval(cond, t[i].val) = Ok(CTrue)
    /\ eval(cond, t[k + 1].val) = Ok(CFalse)

\* C3: a While whose cond is a boolean in every environment reached and whose
\* body never fails returns env_k, the environment after k executions of the
\* body from the input environment, k the least number with cond CFalse in
\* env_k; with k = 0 that is the input environment.
C3_WhileIterates ==
    Executed("While") =>
        \A t \in {BodyRuns(last.stmt.stmt, last.env, MaxIter)} :
            \A k \in 0..MaxIter :
                EndsAfter(last.stmt.cond, t, k) =>
                   /\ last.out = t[k + 1]
                   /\ k = 0 => last.out = Ok(last.env)

\* a loop that ended after three executions of its body
C3_Witness ==
    /\ Executed("While")
    /\ last.out.tag = "Ok"
    /\ EndsAfter(last.stmt.cond, BodyRuns(last.stmt.stmt, last.env, 3), 3)

\* C4: x = n; y = 0; while x > 0 { y = y + x; x = x - 1 } from the empty
\* environment ends with x = CInt(0) and y = CInt(n*(n+1)/2).
C4_Summation ==
    \A n \in 0..MaxIter :
        (last.op = "execute" /\ last.stmt = Summation(n) /\ last.env = EmptyEnv)
        => last.out = Ok(Env2("x", CInt(0), "y", CInt((n * (n + 1)) \div 2)))

\* the summation of tests::eval_summation has run: n = 10, y = 55
C4_Witness ==
    /\ last.op = "execute"
    /\ last.stmt = Summation(10)
    /\ last.env = EmptyEnv
    /\ last.out.tag = "Ok"
    /\ last.out.val["y"] = CInt(55)

\* C5: execute(IfThenElse(cond, s_then, s_else), env) is execute(s_then, env)
\* when cond is CTrue in env and execute(s_else, env) when it is CFalse, whatever
\* the other branch would do; x = 10; if x > 5 then y = 1 else y = 0 gives
\* y = CInt(1), and with x = 3 gives y = CInt(0).
C5_IfSelectsBranch ==
    /\ Executed("IfThenElse") =>
          \A c \in {eval(last.stmt.cond, last.env)} :
             /\ c = Ok(CTrue) => last.out = execute(last.stmt.stmt_then, last.env)
             /\ c = Ok(CFalse) => last.out = execute(last.stmt.stmt_else, last.env)
    /\ (last.op = "execute" /\ last.stmt = IfExample(10))
          => (last.out.tag = "Ok" /\ last.out.val["y"] = CInt(1))
    /\ (last.op = "execute" /\ last.stmt = IfExample(3))
          => (last.out.tag = "Ok" /\ last.out.val["y"] = CInt(0))

\* the then branch ran and succeeded where the else branch would have failed
C5_Witness ==
    /\ Executed("IfThenElse")
    /\ eval(last.stmt.cond, last.env) = Ok(CTrue)
    /\ last.out.tag = "Ok"
    /\ last.out.val # last.env
    /\ execute(last.stmt.stmt_else, last.env).tag = "Err"

\* C6: execute(Sequence(first, second), env) is the error of first when first
\* fails (second is not executed, whatever it would do), and is
\* execute(second, env1) when first succeeds with env1.
C6_SequenceShortCircuits ==
    Executed("Sequence") =>
        \A r \in {execute(last.stmt.s1, last.env)} :
           /\ r.tag = "Err" => last.out = r
           /\ r.tag = "Ok" => last.out = execute(last.stmt.s2, r.val)

\* first failed and second, run in the same environment, would not have ended
C6_Witness ==
    /\ Executed("Sequence")
    /\ last.out.tag = "Err"
    /\ execute(last.stmt.s1, last.env) = last.out
    /\ execute(last.stmt.s2, last.env) = Beyond

(***************************************************************************)
(* Properties of eval, checked under SpecEval                              *)
(***************************************************************************)
Evaluated(k) == last.op = "eval" /\ last.exp.kind = k

\* q is a / b truncated toward zero: the remainder a - q*b is smaller in
\* magnitude than b and is zero or has the sign of a
TruncQuotient(a, b, q) ==
    /\ MulFits(q, b)
    /\ SubFits(a, q * b)
    /\ a >= 0 => a - q * b >= 0
    /\ a <= 0 => a - q * b <= 0
    /\ b > 0 => (-b < a - q * b /\ a - q * b < b)
    /\ b < 0 => (b < a - q * b /\ b < -(a - q * b))

DivOfInts(a, b) == last.op = "eval" /\ last.exp = Div(CInt(a), CInt(b))

\* C7: for i32 a and b, b # 0, the quotient representable,
\* eval(Div(CInt(a), CInt(b))) is CInt(q), q the quotient a/b truncated toward
\* zero, also for negative operands: 10/3 = 3, 21/3 = 7, -7/2 = -3, 7/-2 = -3.
C7_DivTruncatesTowardZero ==
    /\ (/\ Evaluated("Div")
        /\ last.exp.lhs.kind = "CInt"
        /\ last.exp.rhs.kind = "CInt"
        /\ last.exp.rhs.i # 0
        /\ ~ (last.exp.lhs.i = I32Min /\ last.exp.rhs.i = -1))
       => /\ last.out.tag = "Ok"
          /\ last.out.val.kind = "CInt"
          /\ TruncQuotient(last.exp.lhs.i, last.exp.rhs.i, last.out.val.i)
    /\ DivOfInts(10, 3) => last.out = Ok(CInt(3))
    /\ DivOfInts(21, 3) => last.out = Ok(CInt(7))
    /\ DivOfInts(-7, 2) => last.out = Ok(CInt(-3))
    /\ DivOfInts(7, -2) => last.out = Ok(CInt(-3))

\* a negative dividend that its divisor does not divide
C7_Witness == DivOfInts(-7, 2) /\ last.out = Ok(CInt(-3))

IsNumber(exp) == exp.kind \in {"CInt", "CReal"}
AddOfNumbers == Evaluated("Add") /\ IsNumber(last.exp.lhs) /\ IsNumber(last.exp.rhs)

\* == on two Result<Expression, ErrorMessage>
ResultPartialEq(r1, r2) ==
    /\ r1.tag = r2.tag
    /\ r1.tag = "Ok" => ConstPartialEq(r1.val, r2.val)
    /\ r1.tag = "Err" => r1.msg = r2.msg

\* the kind of a sum of numbers: CInt when both are CInt, CReal otherwise
SumKindRule(r) ==
    /\ r.tag = "Ok"
    /\ r.val.kind = IF last.exp.lhs.kind = "CInt" /\ last.exp.rhs.kind = "CInt"
                    THEN "CInt" ELSE "CReal"

IsNaNResult(r) == r.tag = "Ok" /\ r.val.kind = "CReal" /\ IsNaN(r.val.r)

\* C8 as stated: for numeric constants a and b, eval(Add(a, b)) equals
\* eval(Add(b, a)): the same kind (CInt when both are CInt, CReal otherwise)
\* and the same value.
C8_AddCommutes ==
    AddOfNumbers =>
        \A r \in {eval(Add(last.exp.rhs, last.exp.lhs), last.env)} :
            SumKindRule(last.out) /\ SumKindRule(r) /\ ResultPartialEq(last.out, r)

\* C8 as amended: for numeric constants a and b, eval(Add(a, b)) and
\* eval(Add(b, a)) have the same kind (CInt when both are CInt, CReal
\* otherwise) and, unless the sum is a NaN, equal values; when the sum is a NaN
\* it is a NaN in both orders.
C8_AddCommutesUnlessNaN ==
    AddOfNumbers =>
        \A r \in {eval(Add(last.exp.rhs, last.exp.lhs), last.env)} :
            /\ SumKindRule(last.out) /\ SumKindRule(r)
            /\ IsNaNResult(last.out) <=> IsNaNResult(r)
            /\ ~ IsNaNResult(last.out) => ResultPartialEq(last.out, r)

\* an integer plus a real: 10 + 20.5 = 30.5
C8_Witness ==
    /\ last.op = "eval"
    /\ last.exp = Add(CInt(10), CReal(Fin(41, 2)))
    /\ last.out = Ok(CReal(Fin(61, 2)))

UnboundError(n) == Err("Variable " \o n \o " not found")

RECURSIVE FirstUnbound(_, _)
\* the name of the first reference to a variable not bound in e that the
\* evaluation of exp in e reaches, "" when it reaches none: the operands of
\* an operator are evaluated left before right, the right one only when the
\* left one has a value
FirstUnbound(exp, e) ==
    CASE exp.kind = "Var" -> IF exp.name \in DOMAIN e THEN "" ELSE exp.name
      [] is_constant(exp) -> ""
      [] exp.kind = "Not" -> FirstUnbound(exp.lhs, e)
      [] OTHER ->
            IF FirstUnbound(exp.lhs, e) # "" THEN FirstUnbound(exp.lhs, e)
            ELSE IF eval(exp.lhs, e).tag = "Ok" THEN FirstUnbound(exp.rhs, e)
            ELSE ""

\* C9: eval(Var(n), env) is the value bound to n when n is a key of env, and
\* is the error "Variable n not found" exactly when it is not; an expression,
\* or an assignment of it, whose evaluation reaches such a reference fails
\* with that error.
C9_UnboundVariable ==
    last.op = "eval" =>
       /\ last.exp.kind = "Var" =>
             /\ last.exp.name \in DOMAIN last.env
                   => last.out = Ok(last.env[last.exp.name])
             /\ last.exp.name \notin DOMAIN last.env
                   <=> last.out = UnboundError(last.exp.name)
       /\ \A n \in {FirstUnbound(last.exp, last.env)} :
             n # "" =>
                /\ last.out = UnboundError(n)
                /\ \A m \in {"x", "y"} :
                      execute(Assignment(m, last.exp), last.env) = UnboundError(n)

\* an operator whose right operand is the unbound z, the left one having a value
C9_Witness ==
    /\ last.op = "eval"
    /\ last.exp.kind \in ArithKinds
    /\ last.exp.rhs = Var("z")
    /\ eval(last.exp.lhs, last.env).tag = "Ok"
    /\ last.out = Err("Variable z not found")

IsBool(exp) == exp.kind \in {"CTrue", "CFalse"}
BoolTypeError(k) ==
    IF k = "And" THEN Err("'and' is only defined for booleans.")
    ELSE Err("'or' is only defined for booleans.")

\* C10: And and Or do not short-circuit: eval(And(CFalse, e)) and
\* eval(Or(CTrue, e)) succeed only if e evaluates to a boolean, fail with e's
\* error when e fails and with a type error when e is not a boolean; on two
\* booleans the result is the truth-table value.
C10_NoShortCircuit ==
    last.op = "eval" =>
       /\ (\/ last.exp.kind = "And" /\ last.exp.lhs = CFalse
           \/ last.exp.kind = "Or" /\ last.exp.lhs = CTrue)
          => \A r \in {eval(last.exp.rhs, last.env)} :
                /\ last.out.tag = "Ok" => (r.tag = "Ok" /\ IsBool(r.val))
                /\ r.tag = "Err" => last.out = r
                /\ (r.tag = "Ok" /\ ~ IsBool(r.val))
                      => last.out = BoolTypeError(last.exp.kind)
       /\ (last.exp.kind = "And" /\ IsBool(last.exp.lhs) /\ IsBool(last.exp.rhs))
          => last.out = Ok(IF last.exp.lhs = CTrue /\ last.exp.rhs = CTrue
                           THEN CTrue ELSE CFalse)
       /\ (last.exp.kind = "Or" /\ IsBool(last.exp.lhs) /\ IsBool(last.exp.rhs))
          => last.out = Ok(IF last.exp.lhs = CFalse /\ last.exp.rhs = CFalse
                           THEN CFalse ELSE CTrue)
       /\ last.exp = And(CTrue, CInt(1)) => last.out = BoolTypeError("And")

\* And with a false left operand whose right operand fails to evaluate
C10_Witness ==
    /\ Evaluated("And")
    /\ last.exp.lhs = CFalse
    /\ eval(last.exp.rhs, last.env).tag = "Err"
    /\ last.out = eval(last.exp.rhs, last.env)

IsBinary(exp) == exp.kind \in ArithKinds \cup BoolKinds \cup RelKinds

\* the operand values have the kinds operator k is defined for
OperandsFit(k, v1, v2) ==
    IF k \in BoolKinds THEN IsBool(v1) /\ IsBool(v2)
    ELSE IsNumber(v1) /\ IsNumber(v2)

\* C11: the error of a binary operator is that of the first failing step of:
\* evaluate the left operand, evaluate the right operand, check the operand
\* kinds. When both operands fail the left one's error is returned; when one
\* operand has the wrong kind and the other fails to evaluate, as in
\* Add(CTrue, Var("z")) with z unbound, the evaluation error is returned.
C11_FirstErrorWins ==
    (last.op = "eval" /\ IsBinary(last.exp)) =>
       \A l \in {eval(last.exp.lhs, last.env)} :
       \A r \in {eval(last.exp.rhs, last.env)} :
          /\ l.tag = "Err" => last.out = l
          /\ (l.tag = "Ok" /\ r.tag = "Err") => last.out = r
          /\ (l.tag = "Ok" /\ r.tag = "Ok")
                => (last.out.tag = "Err"
                      <=> ~ OperandsFit(last.exp.kind, l.val, r.val))
          /\ (last.exp = Add(CTrue, Var("z")) /\ "z" \notin DOMAIN last.env)
                => last.out = Err("Variable z not found")

\* a left operand of the wrong kind and a right operand that is unbound
C11_Witness ==
    /\ last.op = "eval"
    /\ last.exp = Add(CTrue, Var("z"))
    /\ "z" \notin DOMAIN last.env
    /\ last.out = Err("Variable z not found")

\* both operands of a comparison fail, with different errors
C11_WitnessBothFail ==
    /\ Evaluated("GT")
    /\ eval(last.exp.lhs, last.env).tag = "Err"
    /\ eval(last.exp.rhs, last.env).tag = "Err"
    /\ eval(last.exp.lhs, last.env) # eval(last.exp.rhs, last.env)
    /\ last.out = eval(last.exp.lhs, last.env)

(***************************************************************************)
(* The environment the host holds, checked under Spec                      *)
(***************************************************************************)
\* expressions evaluated against the environment the host holds
Probes == RhsExprs \cup Inner \cup SmallAtoms

IntPair(k) ==
    Evaluated(k) /\ last.exp.lhs.kind = "CInt" /\ last.exp.rhs.kind = "CInt"

\* a + b, a - b and a * b over the integers, clamped to [-2^31, 2^31 - 1]
ClampedAdd(a, b) ==
    IF AddFits(a, b) THEN a + b ELSE IF b > 0 THEN I32Max ELSE I32Min
ClampedSub(a, b) ==
    IF SubFits(a, b) THEN a - b ELSE IF b < 0 THEN I32Max ELSE I32Min
ClampedMul(a, b) ==
    IF MulFits(a, b) THEN a * b
    ELSE IF (a < 0) = (b < 0) THEN I32Max ELSE I32Min

\* C13: Add, Sub and Mul over CInt(a), CInt(b) never fail and never wrap
\* around: they return CInt of the exact result clamped to
\* [-2^31, 2^31 - 1], so CInt(2147483647) + CInt(1) = CInt(2147483647); and
\* Div(CInt(a), CInt(0)) returns Ok: CInt(2147483647) for a > 0,
\* CInt(-2147483648) for a < 0 and CInt(0) for a = 0.
C13_IntArithmeticClamps ==
    /\ IntPair("Add")
          => last.out = Ok(CInt(ClampedAdd(last.exp.lhs.i, last.exp.rhs.i)))
    /\ IntPair("Sub")
          => last.out = Ok(CInt(ClampedSub(last.exp.lhs.i, last.exp.rhs.i)))
    /\ IntPair("Mul")
          => last.out = Ok(CInt(ClampedMul(last.exp.lhs.i, last.exp.rhs.i)))
    /\ (IntPair("Div") /\ last.exp.rhs.i = 0)
          => last.out = Ok(CInt(IF last.exp.lhs.i > 0 THEN I32Max
                                ELSE IF last.exp.lhs.i < 0 THEN I32Min
                                ELSE 0))
    /\ (last.op = "eval" /\ last.exp = Sub(CInt(I32Min), CInt(1)))
          => last.out = Ok(CInt(I32Min))
    /\ (last.op = "eval" /\ last.exp = Mul(CInt(I32Max), CInt(2)))
          => last.out = Ok(CInt(I32Max))
    /\ (last.op = "eval" /\ last.exp = Mul(CInt(-7), CInt(I32Max)))
          => last.out = Ok(CInt(I32Min))

\* the largest i32 plus one
C13_Witness ==
    /\ last.op = "eval"
    /\ last.exp = Add(CInt(I32Max), CInt(1))
    /\ last.out = Ok(CInt(I32Max))

\* a negative integer divided by zero
C13_WitnessDivByZero ==
    /\ last.op = "eval"
    /\ last.exp = Div(CInt(-7), CInt(0))
    /\ last.out = Ok(CInt(I32Min))

====
